---- MODULE Spec2Model ----
(***************************************************************************)
(* CineIndex: the crawler (backend/app/media/crawler.py) and the           *)
(* directory-page parser (backend/app/media/parser.py).                    *)
(*                                                                         *)
(* Strings are sequences of one-character strings, so that the string      *)
(* operations of the code (lower, strip, rfind, startswith, split, max,    *)
(* urljoin) are computed character by character.                           *)
(***************************************************************************)
EXTENDS Integers, Sequences, FiniteSets, TLC

VARIABLES
    cfg,          \* CrawlConfig in force (video_exts, blocked_dirs)
    ver,          \* which version of the served site is on line
    dirs,         \* table dirs: url -> [root, parent, name, modified]
    media,        \* table media: url -> [root, path, filename, modified, size]
    pc,           \* position of the crawl: "idle", "clear", "seed", "loop"
    root_cfg,     \* RootConfig.url of the running crawl
    incremental,  \* the incremental flag of the running crawl
    queue,        \* the work list of (dir_url, parent_url)
    processed_dirs, \* directories indexed so far in the running crawl
    pending,      \* directories indexed since the last conn.commit()
    html,         \* the page text src of parse_directory_page (parser runs)
    parsed,       \* ParsedPage of the last parse
    ev,           \* what the last loop iteration did (the printed events)
    log,          \* what the running crawl has done so far
    prev,         \* log of the crawl that ran before the running one
    owner         \* media url -> dir_url whose batch inserted the row

vars == <<cfg, ver, dirs, media, pc, root_cfg, incremental, queue,
          processed_dirs, pending, html, parsed, ev, log, prev, owner>>

(***************************************************************************)
(* Characters and strings                                                  *)
(***************************************************************************)

\* Python's None; no string of one-character strings equals it.
None == <<"None">>

\* The printable ASCII characters, code points 32..126 in order ("GRAVE"
\* holds the place of code point 96, which no string of the model uses).
Ascii ==
    <<" ", "!", "\"", "#", "$", "%", "&", "'", "(", ")", "*", "+", ",", "-",
      ".", "/", "0", "1", "2", "3", "4", "5", "6", "7", "8", "9", ":", ";",
      "<", "=", ">", "?", "@", "A", "B", "C", "D", "E", "F", "G", "H", "I",
      "J", "K", "L", "M", "N", "O", "P", "Q", "R", "S", "T", "U", "V", "W",
      "X", "Y", "Z", "[", "\\", "]", "^", "_", "GRAVE", "a", "b", "c", "d", "e",
      "f", "g", "h", "i", "j", "k", "l", "m", "n", "o", "p", "q", "r", "s",
      "t", "u", "v", "w", "x", "y", "z", "{", "|", "}", "~">>

Chars == {Ascii[i] : i \in 1..Len(Ascii)}

\* ord(c)
Ord == [c \in Chars |-> 31 + (CHOOSE i \in 1..Len(Ascii) : Ascii[i] = c)]

\* chr(n)
Chr(n) == Ascii[n - 31]

\* str.lower() on one character
LowerChar(c) == IF Ord[c] \in 65..90 THEN Chr(Ord[c] + 32) ELSE c

\* str.upper() on one character
UpperChar(c) == IF Ord[c] \in 97..122 THEN Chr(Ord[c] - 32) ELSE c

\* s.lower()
Lower(s) == [i \in 1..Len(s) |-> LowerChar(s[i])]

\* s.upper()
Upper(s) == [i \in 1..Len(s) |-> UpperChar(s[i])]

\* s.startswith(p)
StartsWith(s, p) == Len(p) <= Len(s) /\ SubSeq(s, 1, Len(p)) = p

\* s.endswith(p)
EndsWith(s, p) ==
    Len(p) <= Len(s) /\ SubSeq(s, Len(s) - Len(p) + 1, Len(s)) = p

\* p in s (substring)
Contains(s, p) ==
    \E i \in 1..(Len(s) - Len(p) + 1) : SubSeq(s, i, i + Len(p) - 1) = p

\* s.find(c), 1-based; 0 stands for Python's -1
Find(s, c) ==
    IF \E i \in 1..Len(s) : s[i] = c
    THEN CHOOSE i \in 1..Len(s) : s[i] = c /\ \A j \in 1..(i - 1) : s[j] # c
    ELSE 0

\* s.rfind(c), 1-based; 0 stands for Python's -1
RFind(s, c) ==
    IF \E i \in 1..Len(s) : s[i] = c
    THEN CHOOSE i \in 1..Len(s) :
             s[i] = c /\ \A j \in (i + 1)..Len(s) : s[j] # c
    ELSE 0

RECURSIVE RStrip(_, _)
\* s.rstrip(c)
RStrip(s, c) ==
    IF s # <<>> /\ s[Len(s)] = c THEN RStrip(SubSeq(s, 1, Len(s) - 1), c)
    ELSE s

RECURSIVE LStrip(_, _)
\* s.lstrip(c)
LStrip(s, c) == IF s # <<>> /\ s[1] = c THEN LStrip(Tail(s), c) ELSE s

\* s.strip(c)
Strip(s, c) == LStrip(RStrip(s, c), c)

RECURSIVE Split(_, _)
\* s.split(c): the list of the pieces between the separators
Split(s, c) ==
    LET i == Find(s, c)
    IN  IF i = 0 THEN <<s>>
        ELSE <<SubSeq(s, 1, i - 1)>> \o Split(SubSeq(s, i + 1, Len(s)), c)

RECURSIVE Join(_, _)
\* c.join(parts)
Join(parts, c) ==
    IF parts = <<>> THEN <<>>
    ELSE IF Len(parts) = 1 THEN parts[1]
    ELSE parts[1] \o <<c>> \o Join(Tail(parts), c)

RECURSIVE StrLess(_, _)
\* a < b for Python strings: lexicographic by code point
StrLess(a, b) ==
    IF b = <<>> THEN FALSE
    ELSE IF a = <<>> THEN TRUE
    ELSE IF a[1] # b[1] THEN Ord[a[1]] < Ord[b[1]]
    ELSE StrLess(Tail(a), Tail(b))

\* max(times) comparing the strings as numbers: the longer one is greater
MaxStr_Numeric(times) ==
    LET less(a, b) == Len(a) < Len(b) \/ (Len(a) = Len(b) /\ StrLess(a, b))
        idx == CHOOSE i \in 1..Len(times) :
                   \A j \in 1..Len(times) : ~less(times[i], times[j])
    IN  times[idx]

RECURSIVE MaxStr(_)
\* max(times) for a non-empty list of strings (the first maximal item)
MaxStr(times) ==
    IF Len(times) = 1 THEN times[1]
    ELSE LET m == MaxStr(Tail(times))
         IN  IF StrLess(times[1], m) THEN m ELSE times[1]

\* The members of a list
Range(s) == {s[i] : i \in 1..Len(s)}

(***************************************************************************)
(* parser.py                                                               *)
(***************************************************************************)

RECURSIVE Unquote(_)
\* urllib.parse.unquote on the escapes the served labels use: %2E is ".",
\* %2F is "/"; any other text is kept as it is.
Unquote(s) ==
    IF s = <<>> THEN <<>>
    ELSE IF StartsWith(s, <<"%", "2", "E">>)
         THEN <<".">> \o Unquote(SubSeq(s, 4, Len(s)))
    ELSE IF StartsWith(s, <<"%", "2", "F">>)
         THEN <<"/">> \o Unquote(SubSeq(s, 4, Len(s)))
    ELSE <<s[1]>> \o Unquote(Tail(s))

\* _decode_name
_decode_name(text) == Unquote(Strip(text, " "))

RECURSIVE ResolveDots(_, _)
\* urljoin's loop over the path segments: ".." pops, "." is dropped.
ResolveDots(segments, resolved) ==
    IF segments = <<>> THEN resolved
    ELSE LET seg == segments[1]
         IN  IF seg = <<".", ".">>
             THEN ResolveDots(Tail(segments),
                      IF resolved = <<>> THEN <<>>
                      ELSE SubSeq(resolved, 1, Len(resolved) - 1))
             ELSE IF seg = <<".">> THEN ResolveDots(Tail(segments), resolved)
             ELSE ResolveDots(Tail(segments), Append(resolved, seg))

\* The empty pieces urljoin filters out of segments[1:-1]
DropInnerEmpty(segments) ==
    LET n == Len(segments)
        keep(i) == i = 1 \/ i = n \/ segments[i] # <<>>
        F[i \in 0..n] ==
            IF i = 0 THEN <<>>
            ELSE IF keep(i) THEN Append(F[i - 1], segments[i]) ELSE F[i - 1]
    IN  F[n]

\* The scheme and authority of an absolute URL ("http://x"), and its path.
UrlOrigin(url) ==
    LET i == Find(url, ":")
        rest == SubSeq(url, i + 3, Len(url))
        j == Find(rest, "/")
    IN  IF j = 0 THEN url ELSE SubSeq(url, 1, i + 2 + j - 1)

UrlPath(url) == SubSeq(url, Len(UrlOrigin(url)) + 1, Len(url))

\* Whether href carries its own scheme and authority
IsAbsolute(href) == Contains(href, <<":", "/", "/">>)

\* urllib.parse.urljoin for URLs without query or params, then the fragment
\* removed from the result.
_normalize_url(base, href) ==
    LET h == Find(href, "#")
        ref == IF h = 0 THEN href ELSE SubSeq(href, 1, h - 1)
        bpath == UrlPath(base)
        base_parts0 == Split(bpath, "/")
        base_parts == IF base_parts0[Len(base_parts0)] # <<>>
                      THEN SubSeq(base_parts0, 1, Len(base_parts0) - 1)
                      ELSE base_parts0
        segments == IF ref[1] = "/" THEN Split(ref, "/")
                    ELSE DropInnerEmpty(base_parts \o Split(ref, "/"))
        last == segments[Len(segments)]
        resolved0 == ResolveDots(segments, <<>>)
        resolved == IF last = <<".">> \/ last = <<".", ".">>
                    THEN Append(resolved0, <<>>) ELSE resolved0
        path == Join(resolved, "/")
    IN  IF ref = <<>> THEN base
        ELSE IF IsAbsolute(ref) THEN ref
        ELSE UrlOrigin(base) \o (IF path = <<>> THEN <<"/">> ELSE path)

\* get_text(strip=True) or None
TextOrNone(cell) ==
    LET t == Strip(cell, " ") IN IF t = <<>> THEN None ELSE t

\* A row the parsers pass over
NoEntry == [accepted |-> FALSE]

\* The result of a row the parsers accept
Entry(is_dir, name, url, modified, size) ==
    [accepted |-> TRUE, is_dir |-> is_dir, name |-> name, url |-> url,
     modified |-> modified, size |-> size]

\* is_dir of _parse_generic_table without the test of the href
generic_is_dir_AltOnly(href, alt) ==
    \/ Contains(Upper(alt), <<"[", "D", "I", "R", "]">>)
    \/ Contains(Lower(alt), <<"f", "o", "l", "d", "e", "r">>)

\* is_dir of _parse_generic_table
generic_is_dir(href, alt) ==
    \/ EndsWith(href, <<"/">>)
    \/ Contains(Upper(alt), <<"[", "D", "I", "R", "]">>)
    \/ Contains(Lower(alt), <<"f", "o", "l", "d", "e", "r">>)

\* One <tr> of _parse_generic_table
generic_row(tr, base_url) ==
    IF tr.ncells < 2 \/ ~tr.a THEN NoEntry
    ELSE LET alt == tr.alt
             href == tr.href
             label == Strip(tr.label, " ")
         IN  IF \/ StartsWith(Upper(alt),
                      <<"[", "P", "A", "R", "E", "N", "T", "D", "I", "R", "]">>)
                \/ href \in {<<".", ".", "/">>, <<".", ".">>}
             THEN NoEntry
             ELSE Entry(generic_is_dir(href, alt),
                        _decode_name(label),
                        _normalize_url(base_url, href),
                        IF tr.ncells >= 3 THEN TextOrNone(tr.c2) ELSE None,
                        IF tr.ncells >= 4 THEN TextOrNone(tr.c3) ELSE None)

\* is_dir of _parse_h5ai_fallback
h5ai_is_dir(href, alt) ==
    \/ EndsWith(href, <<"/">>)
    \/ Contains(Lower(alt), <<"f", "o", "l", "d", "e", "r">>)

ParentDirectoryLabel ==
    <<"P", "a", "r", "e", "n", "t", " ", "D", "i", "r", "e", "c", "t", "o", "r", "y">>

\* One <tr> of _parse_h5ai_fallback
h5ai_row(tr, base_url) ==
    IF tr.ncells < 4 \/ ~tr.a THEN NoEntry
    ELSE LET href == tr.href
             label == Strip(tr.label, " ")
         IN  IF href = <<".", ".">> \/ Contains(label, ParentDirectoryLabel)
             THEN NoEntry
             ELSE Entry(h5ai_is_dir(href, tr.alt),
                        _decode_name(label),
                        _normalize_url(base_url, href),
                        TextOrNone(tr.c2),
                        TextOrNone(tr.c3))

\* is_dir of _parse_discovery_datatable
datatable_is_dir(href, size) ==
    EndsWith(href, <<"/">>) /\ (size = None \/ size = <<>>)

\* _parse_discovery_datatable testing the href against ".." alone
datatable_row_DotDotOnly(tr, base_url) ==
    IF tr.ncells < 2 \/ ~tr.a THEN NoEntry
    ELSE LET href == tr.href
             label == Strip(tr.label, " ")
             size == IF tr.ncells >= 4 THEN TextOrNone(tr.c3) ELSE None
             modified == IF tr.ncells >= 5 THEN TextOrNone(tr.c4) ELSE None
         IN  IF href = <<".", ".">>
             THEN NoEntry
             ELSE Entry(datatable_is_dir(href, size),
                        _decode_name(label),
                        _normalize_url(base_url, href),
                        modified,
                        size)

\* One <tr> of _parse_discovery_datatable
datatable_row(tr, base_url) ==
    IF tr.ncells < 2 \/ ~tr.a THEN NoEntry
    ELSE LET href == tr.href
             label == Strip(tr.label, " ")
             size == IF tr.ncells >= 4 THEN TextOrNone(tr.c3) ELSE None
             modified == IF tr.ncells >= 5 THEN TextOrNone(tr.c4) ELSE None
         IN  IF \/ href \in {<<".", ".">>, <<".", ".", "/">>}
                \/ Contains(label, ParentDirectoryLabel)
             THEN NoEntry
             ELSE Entry(datatable_is_dir(href, size),
                        _decode_name(label),
                        _normalize_url(base_url, href),
                        modified,
                        size)

\* The loop over the rows shared by the three parsers: the accepted rows in
\* page order, split into subdirs and files, and max(times).
Collect(rows) ==
    LET acc == SelectSeq(rows, LAMBDA r : r.accepted)
        subs == SelectSeq(acc, LAMBDA r : r.is_dir)
        fls == SelectSeq(acc, LAMBDA r : ~r.is_dir)
        timed == SelectSeq(acc, LAMBDA r : r.modified # None)
        times == [i \in 1..Len(timed) |-> timed[i].modified]
    IN  [dir_modified |-> IF times # <<>> THEN MaxStr(times) ELSE None,
         subdirs |-> [i \in 1..Len(subs) |->
                        [name |-> subs[i].name, url |-> subs[i].url,
                         modified |-> subs[i].modified]],
         files |-> [i \in 1..Len(fls) |->
                        [name |-> fls[i].name, url |-> fls[i].url,
                         modified |-> fls[i].modified, size |-> fls[i].size]]]

\* ParsedPage(None, [], [])
EmptyPage == [dir_modified |-> None, subdirs |-> <<>>, files |-> <<>>]

\* A page is [fallback, example, table, rows]: whether it holds the
\* div#fallback, the table#example, any table at all, and the <tr> rows of
\* the table the selected parser reads.
_parse_generic_table(page, base_url) ==
    IF ~page.table THEN EmptyPage
    ELSE Collect([i \in 1..Len(page.rows) |-> generic_row(page.rows[i], base_url)])

_parse_h5ai_fallback(page, base_url) ==
    IF ~page.fallback \/ ~page.table THEN EmptyPage
    ELSE Collect([i \in 1..Len(page.rows) |-> h5ai_row(page.rows[i], base_url)])

_parse_discovery_datatable(page, base_url) ==
    IF ~page.example THEN EmptyPage
    ELSE Collect([i \in 1..Len(page.rows) |-> datatable_row(page.rows[i], base_url)])

\* parse_directory_page
parse_directory_page(page, base_url) ==
    IF page.fallback THEN _parse_h5ai_fallback(page, base_url)
    ELSE IF page.example THEN _parse_discovery_datatable(page, base_url)
    ELSE _parse_generic_table(page, base_url)

(***************************************************************************)
(* crawler.py: the pure helpers                                            *)
(***************************************************************************)

\* normalize_root_url
normalize_root_url(url) == RStrip(url, "/") \o <<"/">>

\* load_crawl_config: extensions lowercased without leading dots, blocked
\* names stripped and lowercased.
load_crawl_config(raw_cfg) ==
    [video_exts |-> [i \in 1..Len(raw_cfg.video_extensions) |->
                        LStrip(Lower(raw_cfg.video_extensions[i]), ".")],
     blocked_dirs |-> [i \in 1..Len(raw_cfg.blocked_dirs) |->
                        Lower(Strip(raw_cfg.blocked_dirs[i], " "))]]

\* _path_from_root
_path_from_root(root_url, dir_url) ==
    LET r == normalize_root_url(root_url)
    IN  IF ~StartsWith(dir_url, r) THEN <<"/">>
        ELSE LET rel == RStrip(SubSeq(dir_url, Len(r) + 1, Len(dir_url)), "/")
             IN  IF rel # <<>> THEN <<"/">> \o rel ELSE <<"/">>

\* _is_blocked_dir without the .lower() of the last segment
_is_blocked_dir_CaseSensitive(path, c) ==
    IF c.blocked_dirs = <<>> THEN FALSE
    ELSE LET parts == Split(Strip(path, "/"), "/")
         IN  parts[Len(parts)] \in Range(c.blocked_dirs)

\* _is_blocked_dir: path.strip("/").split("/")[-1].lower() in cfg.blocked_dirs,
\* one intermediate value at a time
_is_blocked_dir(path, c) ==
    IF c.blocked_dirs = <<>> THEN FALSE
    ELSE \E p \in {path} :
         \E stripped \in {Strip(p, "/")} :
         \E parts \in {Split(stripped, "/")} :
         \E last \in {Lower(parts[Len(parts)])} :
             last \in Range(c.blocked_dirs)

\* _should_keep_file without the .lower() of the filename
_should_keep_file_CaseSensitive(filename, c) ==
    IF c.video_exts = <<>> THEN TRUE
    ELSE LET dot == RFind(filename, ".")
         IN  IF dot = 0 THEN FALSE
             ELSE SubSeq(filename, dot + 1, Len(filename)) \in Range(c.video_exts)

\* _should_keep_file
_should_keep_file(filename, c) ==
    IF c.video_exts = <<>> THEN TRUE
    ELSE LET lower == Lower(filename)
             dot == RFind(lower, ".")
         IN  IF dot = 0 THEN FALSE
             ELSE SubSeq(lower, dot + 1, Len(lower)) \in Range(c.video_exts)

\* rel_path.rsplit("/", 1)[-1] if rel_path != "/" else ""
DirName(rel_path) ==
    IF rel_path # <<"/">>
    THEN SubSeq(rel_path, RFind(rel_path, "/") + 1, Len(rel_path))
    ELSE <<>>

(***************************************************************************)
(* The configuration files and the served site                             *)
(***************************************************************************)

HTTP_X == <<"h", "t", "t", "p", ":", "/", "/", "x">>

\* roots.json: http://x/m, http://x/m/a/ (inside the first root), http://x/z/
RawRoots ==
    {HTTP_X \o <<"/", "m">>,
     HTTP_X \o <<"/", "m", "/", "a", "/">>,
     HTTP_X \o <<"/", "z", "/">>}

\* load_root_configs: the url of every RootConfig
Roots == {normalize_root_url(Strip(r, " ")) : r \in RawRoots}

\* config.json as written by the user: with a filter and a blocked name, and
\* with neither.
RawConfigs ==
    {[video_extensions |-> << <<".", "M", "P", "4">>, <<"m", "k", "v">> >>,
      blocked_dirs |-> << <<" ", "E", "x", "t", "r", "a", "s">> >>],
     [video_extensions |-> <<>>, blocked_dirs |-> <<>>]}

Configs == {load_crawl_config(r) : r \in RawConfigs}

\* A <tr> whose second cell holds a link
Row(ncells, href, label, alt, c2, c3, c4) ==
    [ncells |-> ncells, a |-> TRUE, href |-> href, label |-> label,
     alt |-> alt, c2 |-> c2, c3 |-> c3, c4 |-> c4]

GenericPage(rows) ==
    [fallback |-> FALSE, example |-> FALSE, table |-> TRUE, rows |-> rows]

DataTablePage(rows) ==
    [fallback |-> FALSE, example |-> TRUE, table |-> TRUE, rows |-> rows]

H5aiPage(rows) ==
    [fallback |-> TRUE, example |-> FALSE, table |-> TRUE, rows |-> rows]

AltDir == <<"[", "D", "I", "R", "]">>
AltVid == <<"[", "V", "I", "D", "]">>
AltParent == <<"[", "P", "A", "R", "E", "N", "T", "D", "I", "R", "]">>

U_m == HTTP_X \o <<"/", "m", "/">>
U_a == HTTP_X \o <<"/", "m", "/", "a", "/">>
U_f == HTTP_X \o <<"/", "m", "/", "a", "/", "f", "/">>
U_extras == HTTP_X \o <<"/", "m", "/", "E", "x", "t", "r", "a", "s", "/">>
U_q == HTTP_X \o <<"/", "q", "/">>
U_z == HTTP_X \o <<"/", "z", "/">>
U_y == HTTP_X \o <<"/", "z", "/", "y", "/">>

\* http://x/m/ : an autoindex table
Page_m ==
    GenericPage(<<
        Row(4, <<"/">>, ParentDirectoryLabel, AltParent, <<>>, <<"-">>, <<>>),
        Row(4, <<"a", "/">>, <<"a", "/">>, AltDir, <<"1">>, <<"-">>, <<>>),
        Row(4, <<"E", "x", "t", "r", "a", "s", "/">>,
               <<"E", "x", "t", "r", "a", "s", "/">>, AltDir, <<"1">>, <<"-">>, <<>>),
        Row(4, <<"x", ".", "M", "K", "V">>, <<" ", "x", "%", "2", "E", "M", "K", "V">>,
               AltVid, <<"2">>, <<"7">>, <<>>),
        Row(3, <<"x", ".", "s", "r", "t">>, <<"x", ".", "s", "r", "t">>,
               <<>>, <<"1", "0">>, <<>>, <<>>),
        Row(2, <<"n", "o", "e", "x", "t">>, <<"n", "o", "e", "x", "t">>,
               <<>>, <<>>, <<>>, <<>>) >>)

\* http://x/m/a/ : a DataTables listing (size in cell 3, modified in cell 4)
Page_a(v) ==
    DataTablePage(<<
        Row(5, <<".", ".", "/">>, <<"u", "p">>, <<>>, <<>>, <<>>, <<>>),
        IF v = 0
        THEN Row(5, <<"c", ".", "m", "k", "v">>, <<"c", ".", "m", "k", "v">>,
                    <<>>, <<>>, <<"5">>, <<"1">>)
        ELSE Row(5, <<"h", ".", "m", "p", "4">>, <<"h", ".", "m", "p", "4">>,
                    <<>>, <<>>, <<"6">>, <<"4">>),
        Row(5, <<"d", "/">>, <<"d">>, <<>>, <<>>, <<"9">>, <<"1">>),
        Row(5, <<"f", "/">>, <<"f">>, <<>>, <<>>, <<" ">>, <<"3">>) >>)

\* http://x/m/a/f/ : an h5ai fallback table without modification times
Page_f ==
    H5aiPage(<<
        Row(4, <<".", ".", "/">>, ParentDirectoryLabel, <<>>, <<>>, <<>>, <<>>),
        Row(4, <<"s", ".", "t", ".", "m", "k", "v", "#", "t">>,
               <<"s", ".", "t", ".", "m", "k", "v">>, <<>>, <<" ">>, <<"1">>, <<>>) >>)

\* http://x/m/Extras/ : an autoindex table linking out of the root
Page_extras ==
    GenericPage(<<
        Row(3, <<"/", "q", "/">>, <<"q">>, <<>>, <<"1">>, <<>>, <<>>),
        Row(3, <<"t", ".", "m", "k", "v">>, <<"t", ".", "m", "k", "v">>,
               <<>>, <<"1">>, <<>>, <<>>) >>)

\* http://x/q/
Page_q ==
    GenericPage(<<
        Row(3, <<"w", ".", "m", "k", "v">>, <<"w", ".", "m", "k", "v">>,
               <<>>, <<"5">>, <<>>, <<>>) >>)

\* http://x/z/ and http://x/z/y/ : h5ai tables; z shows no modification
\* time, y lists its parent as "../"
Page_z ==
    H5aiPage(<<
        Row(4, <<"y", "/">>, <<"y">>, <<>>, <<" ">>, <<>>, <<>>) >>)

Page_y ==
    H5aiPage(<<
        Row(4, <<".", ".", "/">>, <<"u", "p">>, <<>>, <<"1">>, <<>>, <<>>),
        Row(4, <<"v", ".", "m", "k", "v">>, <<"v", ".", "m", "k", "v">>,
               <<>>, <<"2">>, <<"3">>, <<>>) >>)

SiteUrls == {U_m, U_a, U_f, U_extras, U_q, U_z, U_y}

\* What the server holds at each URL in version v of the site; a URL outside
\* SiteUrls is answered with an HTTP error.
Site(v) ==
    [u \in SiteUrls |->
        IF u = U_m THEN Page_m
        ELSE IF u = U_a THEN Page_a(v)
        ELSE IF u = U_f THEN Page_f
        ELSE IF u = U_extras THEN Page_extras
        ELSE IF u = U_q THEN Page_q
        ELSE IF u = U_z THEN Page_z
        ELSE Page_y]

(***************************************************************************)
(* crawler.py: crawl_root                                                  *)
(***************************************************************************)

\* Crawls started in one behaviour
MaxRuns == 2

\* Loop iterations of one crawl (a listing that links back never drains
\* the queue); enough of them to pass the first checkpoint
MaxSteps == 21

\* The 20 of the checkpoint below
CommitEvery == 20

\* A loop without the checkpoint
CommitDue_Never(n) == FALSE

\* if processed_dirs % 20 == 0: conn.commit()
CommitDue(n) == n % CommitEvery = 0

\* A table as a function from its unique key, url, to the other columns
NoRows == [u \in {} |-> None]

Put(table, key, row) ==
    [u \in DOMAIN table \cup {key} |-> IF u = key THEN row ELSE table[u]]

Keep(table, keys) == [u \in keys |-> table[u]]

\* DELETE FROM media / dirs without the WHERE clause
DeleteRoot_All(table, root) == NoRows

\* DELETE FROM media / dirs WHERE root = ?
DeleteRoot(table, root) ==
    Keep(table, {u \in DOMAIN table : table[u].root # root})

\* DELETE FROM media WHERE root = ? AND path = ?
DeleteRootPath(table, root, path) ==
    Keep(table, {u \in DOMAIN table :
                    ~(table[u].root = root /\ table[u].path = path)})

\* INSERT INTO dirs ... ON CONFLICT(url) DO UPDATE
UpsertDir(table, dir_url, root, parent_url, rel_path, dir_modified) ==
    Put(table, dir_url,
        [root |-> root, parent |-> parent_url, name |-> DirName(rel_path),
         modified |-> dir_modified])

\* The files of the page that pass the filter, in page order
KeptFiles(files, c) == SelectSeq(files, LAMBDA f : _should_keep_file(f.name, c))

RECURSIVE InsertFiles(_, _, _, _)
\* INSERT INTO media ... ON CONFLICT(url) DO UPDATE, once per kept file
InsertFiles(table, files, root, rel_path) ==
    IF files = <<>> THEN table
    ELSE InsertFiles(
             Put(table, files[1].url,
                 [root |-> root, path |-> rel_path, filename |-> files[1].name,
                  modified |-> files[1].modified, size |-> files[1].size]),
             Tail(files), root, rel_path)

\* The batch with its DELETE after the inserts
IndexMedia_DeleteLast(table, files, root, rel_path) ==
    DeleteRootPath(InsertFiles(table, files, root, rel_path), root, rel_path)

\* The batch without its DELETE
IndexMedia_NoDelete(table, files, root, rel_path) ==
    InsertFiles(table, files, root, rel_path)

\* The media table after one directory's batch
IndexMedia(table, files, root, rel_path) ==
    InsertFiles(DeleteRootPath(table, root, rel_path), files, root, rel_path)

\* Unchanged with the comparison inverted
Unchanged_Inverted(table, dir_url, dir_modified) ==
    dir_url \in DOMAIN table /\ table[dir_url].modified # dir_modified

\* Unchanged that also asks for a stored token
Unchanged_PresentOnly(table, dir_url, dir_modified) ==
    /\ dir_url \in DOMAIN table
    /\ table[dir_url].modified # None
    /\ table[dir_url].modified = dir_modified

\* row is not None and row["modified"] == dir_modified
Unchanged(table, dir_url, dir_modified) ==
    dir_url \in DOMAIN table /\ table[dir_url].modified = dir_modified

\* queue.insert(0, ...) in place of queue.append(...)
Enqueue_DepthFirst(q, subdirs, dir_url) ==
    [i \in 1..Len(subdirs) |-> <<subdirs[i].url, dir_url>>] \o q

\* The loop with a visited set: a URL the run has fetched is not queued again
Enqueue_Unvisited(q, subdirs, dir_url) ==
    LET fresh == SelectSeq(subdirs, LAMBDA d : d.url \notin log.fetched \cup {dir_url})
    IN  q \o [i \in 1..Len(fresh) |-> <<fresh[i].url, dir_url>>]

\* for d in parsed.subdirs: queue.append((d.url, dir_url))
Enqueue(q, subdirs, dir_url) ==
    q \o [i \in 1..Len(subdirs) |-> <<subdirs[i].url, dir_url>>]

\* The log of a crawl that has not done anything yet: the URLs it asked the
\* server for, those that failed and those that were answered, and how many
\* fetches, dirs upserts and media statements (DELETE, INSERT) it executed.
NewLog(run, root, inc, v) ==
    [run |-> run, root |-> root, inc |-> inc, ver |-> v, steps |-> 0,
     bulk |-> FALSE, fetched |-> {}, failed |-> {}, ok |-> {},
     fetches |-> 0, dir_upserts |-> 0, media_ops |-> 0]

\* html before any fetch and after _fetch_page returned None: a value unequal
\* to every page
NoHtml == [fallback |-> None]

NoEvent == [kind |-> "none", url |-> None, path |-> None, inserted |-> <<>>]

Event(kind, url, path, inserted) ==
    [kind |-> kind, url |-> url, path |-> path, inserted |-> inserted]

Init ==
    /\ cfg \in Configs
    /\ ver = 0
    /\ dirs = NoRows
    /\ media = NoRows
    /\ owner = NoRows
    /\ pc = "idle"
    /\ root_cfg = None
    /\ incremental = FALSE
    /\ queue = <<>>
    /\ processed_dirs = 0
    /\ pending = 0
    /\ html = NoHtml
    /\ parsed = EmptyPage
    /\ ev = NoEvent
    /\ log = NewLog(0, None, FALSE, 0)
    /\ prev = NewLog(0, None, FALSE, 0)

\* The server's content changes between two crawls
SiteChange ==
    /\ pc = "idle"
    /\ log.run < MaxRuns
    /\ ver' = 1 - ver
    /\ UNCHANGED <<cfg, dirs, media, pc, root_cfg, incremental, queue,
                   processed_dirs, pending, html, parsed, ev, log, prev, owner>>

\* StartCrawl that clears the root whatever the incremental flag says
StartCrawl_AlwaysClear(rc, inc) ==
    /\ pc = "idle"
    /\ log.run < MaxRuns
    /\ root_cfg' = rc
    /\ incremental' = inc
    /\ pc' = "clear"
    /\ prev' = log
    /\ log' = NewLog(log.run + 1, rc, inc, ver)
    /\ ev' = NoEvent
    /\ UNCHANGED <<cfg, ver, dirs, media, queue, processed_dirs, pending,
                   html, parsed, owner>>

\* build_index / update_index call crawl_root(rc, crawl_cfg, conn, incremental)
StartCrawl(rc, inc) ==
    /\ pc = "idle"
    /\ log.run < MaxRuns
    /\ root_cfg' = rc
    /\ incremental' = inc
    /\ pc' = IF inc THEN "seed" ELSE "clear"
    /\ prev' = log
    /\ log' = NewLog(log.run + 1, rc, inc, ver)
    /\ ev' = NoEvent
    /\ UNCHANGED <<cfg, ver, dirs, media, queue, processed_dirs, pending,
                   html, parsed, owner>>

\* if not incremental: the two DELETE ... WHERE root = ? and conn.commit()
ClearRoot ==
    /\ pc = "clear"
    /\ media' = DeleteRoot(media, root_cfg)
    /\ owner' = Keep(owner, DOMAIN media')
    /\ dirs' = DeleteRoot(dirs, root_cfg)
    /\ pending' = 0
    /\ log' = [log EXCEPT !.bulk = TRUE]
    /\ pc' = "seed"
    /\ UNCHANGED <<cfg, ver, root_cfg, incremental, queue, processed_dirs,
                   html, parsed, ev, prev>>

\* queue = [(root_cfg.url, None)]; processed_dirs = 0
SeedQueue ==
    /\ pc = "seed"
    /\ queue' = << <<root_cfg, None>> >>
    /\ processed_dirs' = 0
    /\ pc' = "loop"
    /\ UNCHANGED <<cfg, ver, dirs, media, root_cfg, incremental, pending,
                   html, parsed, ev, log, prev, owner>>

\* while queue: dir_url, parent_url = queue.pop(0)
Looping == pc = "loop" /\ queue # <<>> /\ log.steps < MaxSteps
dir_url == queue[1][1]
parent_url == queue[1][2]
rel_path == _path_from_root(root_cfg, dir_url)

\* if _is_blocked_dir(rel_path, cfg): continue
SkipBlocked ==
    /\ Looping
    /\ _is_blocked_dir(rel_path, cfg)
    /\ queue' = Tail(queue)
    /\ ev' = Event("blocked", dir_url, rel_path, <<>>)
    /\ log' = [log EXCEPT !.steps = @ + 1]
    /\ UNCHANGED <<cfg, ver, dirs, media, pc, root_cfg, incremental,
                   processed_dirs, pending, html, parsed, prev, owner>>

\* FetchFailed with the failure ending the crawl instead of the iteration
FetchFailed_Aborts ==
    /\ Looping
    /\ ~_is_blocked_dir(rel_path, cfg)
    /\ queue' = Tail(queue)
    /\ html' = NoHtml
    /\ pc' = "idle"
    /\ ev' = Event("failed", dir_url, rel_path, <<>>)
    /\ log' = [log EXCEPT !.steps = @ + 1,
                          !.fetches = @ + 1,
                          !.fetched = @ \cup {dir_url},
                          !.failed = @ \cup {dir_url}]
    /\ UNCHANGED <<cfg, ver, dirs, media, root_cfg, incremental,
                   processed_dirs, pending, parsed, prev, owner>>

\* html = _fetch_page(session, dir_url); if html is None: continue
FetchFailed ==
    /\ Looping
    /\ ~_is_blocked_dir(rel_path, cfg)
    /\ queue' = Tail(queue)
    /\ html' = NoHtml
    /\ ev' = Event("failed", dir_url, rel_path, <<>>)
    /\ log' = [log EXCEPT !.steps = @ + 1,
                          !.fetches = @ + 1,
                          !.fetched = @ \cup {dir_url},
                          !.failed = @ \cup {dir_url}]
    /\ UNCHANGED <<cfg, ver, dirs, media, pc, root_cfg, incremental,
                   processed_dirs, pending, parsed, prev, owner>>

\* The fetch answers with the page the server holds, which is parsed
Fetched ==
    /\ Looping
    /\ ~_is_blocked_dir(rel_path, cfg)
    /\ dir_url \in DOMAIN Site(ver)
    /\ html' = Site(ver)[dir_url]
    /\ parsed' = parse_directory_page(html', dir_url)

\* if incremental: ... if row is not None and row["modified"] == dir_modified:
\*     skipped_dirs += 1; continue
SkipUnchanged ==
    /\ Fetched
    /\ incremental
    /\ Unchanged(dirs, dir_url, parsed'.dir_modified)
    /\ queue' = Tail(queue)
    /\ ev' = Event("unchanged", dir_url, rel_path, <<>>)
    /\ log' = [log EXCEPT !.steps = @ + 1,
                          !.fetches = @ + 1,
                          !.fetched = @ \cup {dir_url},
                          !.ok = @ \cup {dir_url}]
    /\ UNCHANGED <<cfg, ver, dirs, media, pc, root_cfg, incremental,
                   processed_dirs, pending, prev, owner>>

\* The upsert of the directory, the delete and the inserts of its files, the
\* enqueueing of its subdirectories and the commit every 20 directories
IndexDirectory ==
    /\ Fetched
    /\ ~(incremental /\ Unchanged(dirs, dir_url, parsed'.dir_modified))
    /\ LET kept == KeptFiles(parsed'.files, cfg)
       IN  /\ dirs' = UpsertDir(dirs, dir_url, root_cfg, parent_url, rel_path,
                                parsed'.dir_modified)
           /\ media' = IndexMedia(media, kept, root_cfg, rel_path)
           /\ owner' = [u \in DOMAIN media' |->
                          IF u \in {kept[i].url : i \in 1..Len(kept)}
                          THEN dir_url ELSE owner[u]]
           /\ ev' = Event("indexed", dir_url, rel_path,
                          [i \in 1..Len(kept) |-> kept[i].name])
    /\ queue' = Enqueue(Tail(queue), parsed'.subdirs, dir_url)
    /\ processed_dirs' = processed_dirs + 1
    /\ pending' = IF CommitDue(processed_dirs') THEN 0 ELSE pending + 1
    /\ log' = [log EXCEPT !.steps = @ + 1,
                          !.fetches = @ + 1,
                          !.fetched = @ \cup {dir_url},
                          !.ok = @ \cup {dir_url},
                          !.dir_upserts = @ + 1,
                          !.media_ops = @ + 1 +
                              Len(KeptFiles(parsed'.files, cfg))]
    /\ UNCHANGED <<cfg, ver, pc, root_cfg, incremental, prev>>

\* The queue is empty: conn.commit() and crawl_root returns
FinishCrawl ==
    /\ pc = "loop"
    /\ queue = <<>>
    /\ pending' = 0
    /\ pc' = "idle"
    /\ UNCHANGED <<cfg, ver, dirs, media, root_cfg, incremental, queue,
                   processed_dirs, html, parsed, ev, log, prev, owner>>

Next ==
    \/ SiteChange
    \/ \E rc \in Roots, inc \in BOOLEAN : StartCrawl(rc, inc)
    \/ ClearRoot
    \/ SeedQueue
    \/ SkipBlocked
    \/ FetchFailed
    \/ SkipUnchanged
    \/ IndexDirectory
    \/ FinishCrawl

Spec == Init /\ [][Next]_vars

\* One statement of crawl_root
CrawlStep ==
    \/ ClearRoot
    \/ SeedQueue
    \/ SkipBlocked
    \/ FetchFailed
    \/ SkipUnchanged
    \/ IndexDirectory
    \/ FinishCrawl

\* Crawls started in one behaviour of the fair specification
FairRuns == 1

FirstCrawl(rc, inc) == log.run < FairRuns /\ StartCrawl(rc, inc)

NextFair ==
    \/ SiteChange
    \/ \E rc \in Roots, inc \in BOOLEAN : FirstCrawl(rc, inc)
    \/ CrawlStep

\* crawl_root is a sequential function that main.py calls and waits for: once
\* called it keeps executing its next statement until it returns. Every
\* statement moves pc or counts an iteration in log.
SpecFair == Init /\ [][NextFair]_vars /\ WF_<<pc, log>>(CrawlStep)

(***************************************************************************)
(* The parser on its own: parse_directory_page applied to every page of a  *)
(* bounded set                                                             *)
(***************************************************************************)

\* Rows of a parsed test page
MaxRows == 2

S_d == <<"d", "/">>
S_p == <<"p", "/">>
S_up == <<"u", "p">>

\* Rows that differ in what the three parsers look at: the number of cells,
\* the link, the trailing slash of the href, the icon's alt text, the
\* parent-directory markers, and the size and modified cells.
TestRows ==
    {Row(5, S_d, <<"d">>, <<>>, <<"1">>, <<>>, <<"2">>),
     Row(5, S_d, <<"d">>, <<>>, <<"1", "0">>, <<"9">>, <<>>),
     Row(4, <<"f">>, <<"f">>, <<"F", "o", "l", "d", "e", "r">>, <<"2">>, <<"7">>, <<>>),
     Row(4, <<"f">>, <<"f">>, <<>>, <<" ">>, <<"7">>, <<>>),
     Row(2, <<"g">>, <<"g">>, <<"[", "d", "i", "r", "]">>, <<>>, <<>>, <<>>),
     Row(4, <<".", ".">>, S_up, <<>>, <<"3">>, <<>>, <<>>),
     Row(5, <<".", ".", "/">>, <<"u">>, <<>>, <<"3">>, <<>>, <<"3">>),
     Row(5, S_p, ParentDirectoryLabel, <<>>, <<"3">>, <<>>, <<"3">>),
     Row(5, S_p, <<"p">>, <<"[", "p", "a", "r", "e", "n", "t", "d", "i", "r", "]">>,
            <<"3">>, <<>>, <<"3">>),
     [Row(4, S_d, <<"d">>, <<>>, <<"4">>, <<>>, <<>>) EXCEPT !.a = FALSE],
     Row(1, S_d, <<"d">>, <<>>, <<>>, <<>>, <<>>)}

RowLists == UNION {[1..n -> TestRows] : n \in 0..MaxRows}

\* Every combination of the two markers over every list of rows, and the
\* pages without any table
TestPages ==
    {[fallback |-> fb, example |-> ex, table |-> TRUE, rows |-> rows] :
        fb \in BOOLEAN, ex \in BOOLEAN, rows \in RowLists}
    \cup {[fallback |-> fb, example |-> FALSE, table |-> FALSE, rows |-> <<>>] :
        fb \in BOOLEAN}

ParseInit ==
    /\ cfg \in Configs
    /\ ver = 0
    /\ dirs = NoRows
    /\ media = NoRows
    /\ owner = NoRows
    /\ pc = "idle"
    /\ root_cfg = None
    /\ incremental = FALSE
    /\ queue = <<>>
    /\ processed_dirs = 0
    /\ pending = 0
    /\ html \in TestPages
    /\ parsed = EmptyPage
    /\ ev = NoEvent
    /\ log = NewLog(0, None, FALSE, 0)
    /\ prev = NewLog(0, None, FALSE, 0)

\* parsed = parse_directory_page(html, dir_url)
ParsePage ==
    /\ ev.kind = "none"
    /\ parsed' = parse_directory_page(html, U_a)
    /\ ev' = Event("parsed", U_a, None, <<>>)
    /\ UNCHANGED <<cfg, ver, dirs, media, pc, root_cfg, incremental, queue,
                   processed_dirs, pending, html, log, prev, owner>>

ParseNext == ParsePage

SpecParse == ParseInit /\ [][ParseNext]_vars

(***************************************************************************)
(* The claims                                                              *)
(***************************************************************************)

\* A loop iteration whose fetch was answered
FetchedStep ==
    /\ Looping
    /\ log'.steps = log.steps + 1
    /\ ev'.kind \in {"unchanged", "indexed"}

\* A loop iteration that wrote nothing and enqueued nothing
NothingWritten ==
    /\ dirs' = dirs
    /\ media' = media
    /\ log'.dir_upserts = log.dir_upserts
    /\ log'.media_ops = log.media_ops
    /\ processed_dirs' = processed_dirs
    /\ queue' = Tail(queue)

\* A loop iteration that indexed the dequeued directory: steps 6 to 8
Proceeded ==
    /\ ev'.kind = "indexed"
    /\ dir_url \in DOMAIN dirs'
    /\ dirs'[dir_url].modified = parsed'.dir_modified
    /\ log'.dir_upserts = log.dir_upserts + 1
    /\ log'.media_ops > log.media_ops
    /\ queue' = Tail(queue) \o
                  [i \in 1..Len(parsed'.subdirs) |->
                      <<parsed'.subdirs[i].url, dir_url>>]

\* C1: in an incremental crawl, a fetched directory whose stored Directory
\* row carries the token parsed from the fetched page is passed over: no
\* media DELETE or INSERT, no dirs upsert, and none of its subdirectories is
\* appended to the queue.
C1_UnchangedDirectoryIsSkipped ==
    [][(/\ FetchedStep
        /\ incremental
        /\ dir_url \in DOMAIN dirs
        /\ dirs[dir_url].modified = parsed'.dir_modified)
       => (ev'.kind = "unchanged" /\ NothingWritten)]_vars

C1_Witness ==
    /\ ev.kind = "unchanged"
    /\ incremental
    /\ parsed.dir_modified # None
    /\ dirs[ev.url].modified = parsed.dir_modified
    /\ parsed.subdirs # <<>>
    /\ parsed.files # <<>>

\* C2: in an incremental crawl a fetched directory is skipped only if a
\* stored token is present for its URL and equals the parsed one; with no
\* row, with no stored token, or with a different token the directory is
\* indexed and its subdirectories are enqueued.
C2_SkipOnlyOnPresentEqualToken ==
    [][(FetchedStep /\ incremental)
       => /\ ev'.kind = "unchanged"
                => /\ dir_url \in DOMAIN dirs
                   /\ dirs[dir_url].modified # None
                   /\ dirs[dir_url].modified = parsed'.dir_modified
          /\ (\/ dir_url \notin DOMAIN dirs
              \/ dirs[dir_url].modified = None
              \/ dirs[dir_url].modified # parsed'.dir_modified)
                => Proceeded]_vars

\* The final segment of a root-relative path, lowercased
FinalSegment(path) ==
    LET t == RStrip(path, "/")
    IN  Lower(SubSeq(t, RFind(t, "/") + 1, Len(t)))

\* The directory's final path segment is one of blockedDirs
InBlockedDirs(url) ==
    FinalSegment(_path_from_root(root_cfg, url)) \in Range(cfg.blocked_dirs)

\* C3: a dequeued directory whose final path segment, lowercased, is in
\* blockedDirs is never fetched, gets no Directory or MediaFile row written
\* and is never the parent of a queued item, in full and incremental mode.
C3_BlockedDirectoryIsPruned ==
    /\ [][(Looping /\ InBlockedDirs(dir_url))
          => /\ ev'.kind = "blocked"
             /\ log'.fetches = log.fetches
             /\ log'.fetched = log.fetched
             /\ NothingWritten]_vars
    /\ [](pc = "loop"
          => /\ \A u \in log.fetched : ~InBlockedDirs(u)
             /\ \A i \in 1..Len(queue) :
                    queue[i][2] # None => ~InBlockedDirs(queue[i][2]))

C3_Witness ==
    /\ ev.kind = "blocked"
    /\ ev.url = U_extras
    /\ incremental
    /\ queue # <<>>

\* No row of the store is owned by the crawled root
RootIsClear ==
    /\ \A u \in DOMAIN dirs : dirs[u].root # root_cfg
    /\ \A u \in DOMAIN media : media[u].root # root_cfg

\* C4: a full crawl has deleted every Directory and MediaFile row of its
\* root before the first item is dequeued, and an incremental crawl never
\* executes the root-scoped delete: it removes no Directory row, and only
\* MediaFile rows of the (root, path) of the directory being indexed.
C4_BulkDeleteOnlyInFullCrawl ==
    /\ []((~incremental /\ (pc = "seed" \/ (pc = "loop" /\ log.steps = 0)))
          => (log.bulk /\ RootIsClear))
    /\ []((incremental /\ pc # "idle") => ~log.bulk)
    /\ [][(incremental /\ pc # "idle")
          => /\ DOMAIN dirs \subseteq DOMAIN dirs'
             /\ \A u \in DOMAIN media \ DOMAIN media' :
                    /\ Looping
                    /\ media[u].root = root_cfg
                    /\ media[u].path = rel_path]_vars

C4_Witness ==
    /\ ~incremental
    /\ pc = "seed"
    /\ log.bulk
    /\ prev.root = root_cfg
    /\ prev.dir_upserts > 0
    /\ prev.media_ops > 1

\* C5: a failed fetch writes nothing to the store and enqueues nothing, the
\* item is fetched once and not put back, and the crawl goes on: it leaves
\* the loop only with an empty queue.
C5_FetchFailureSkipsTheItem ==
    /\ [][(Looping /\ log'.steps = log.steps + 1 /\ ev'.kind = "failed")
          => /\ NothingWritten
             /\ log'.fetches = log.fetches + 1
             /\ pc' = "loop"]_vars
    /\ [][(pc = "loop" /\ pc' # "loop") => queue = <<>>]_vars

C5_Witness ==
    /\ pc = "loop"
    /\ log.failed # {}
    /\ ev.kind = "indexed"
    /\ ev.url \notin log.failed

\* C6: a directory whose fetch failed in one crawl is fetched again by the
\* incremental crawl of the same root that follows it (here: a following
\* incremental crawl in which every fetch is answered).
C6_FailedDirectoryIsFetchedAgain ==
    (/\ pc = "idle"
     /\ log.run >= 2
     /\ log.inc
     /\ log.root = prev.root
     /\ log.ver = prev.ver
     /\ log.failed = {})
    => prev.failed \subseteq log.fetched

\* The running crawl is incremental, follows a full crawl of the same root,
\* and every fetch so far was answered as in that crawl: the site is the
\* same, a page answered now was answered then, a failure now failed then.
RepeatsFullCrawl ==
    /\ log.run >= 2
    /\ log.inc
    /\ ~prev.inc
    /\ prev.root = log.root
    /\ prev.ver = log.ver
    /\ log.ok \subseteq prev.ok
    /\ log.failed \subseteq prev.failed

\* C7: an incremental crawl that follows a completed full crawl of the same
\* root and is served the same pages executes no media DELETE and no media
\* INSERT.
C7_RepeatedCrawlWritesNoMedia == RepeatsFullCrawl => log.media_ops = 0

C7_Witness ==
    /\ RepeatsFullCrawl
    /\ pc = "idle"
    /\ log.ok = {log.root}
    /\ log.root = U_m
    /\ prev.media_ops > 1
    /\ ev.kind = "unchanged"

\* The filter as the configuration describes it: no filter, or the text
\* after the last "." of the name, lowercased, is a configured extension.
KeptBySpec(name) ==
    \/ cfg.video_exts = <<>>
    \/ \E i \in 1..Len(name) :
          /\ name[i] = "."
          /\ \A j \in (i + 1)..Len(name) : name[j] # "."
          /\ Lower(SubSeq(name, i + 1, Len(name))) \in Range(cfg.video_exts)

\* C8: the files a directory's batch inserts are exactly the parsed files
\* that the filter keeps: every file when videoExtensions is empty, else
\* those whose lowercased suffix after the final "." is in videoExtensions
\* (a name without "." is dropped).
C8_ExtensionFilter ==
    ev.kind = "indexed"
    => LET want == SelectSeq(parsed.files, LAMBDA f : KeptBySpec(f.name))
       IN  /\ ev.inserted = [i \in 1..Len(want) |-> want[i].name]
           /\ \A i \in 1..Len(want) :
                 /\ want[i].url \in DOMAIN media
                 /\ media[want[i].url].root = root_cfg
                 /\ media[want[i].url].path = ev.path

C8_Witness ==
    /\ ev.kind = "indexed"
    /\ ev.url = U_m
    /\ cfg.video_exts = << <<"m", "p", "4">>, <<"m", "k", "v">> >>
    /\ [i \in 1..Len(parsed.files) |-> parsed.files[i].name]
         = << <<"x", ".", "M", "K", "V">>, <<"x", ".", "s", "r", "t">>,
              <<"n", "o", "e", "x", "t">> >>
    /\ ev.inserted = << <<"x", ".", "M", "K", "V">> >>

\* C9: all MediaFile rows that share a path were inserted while processing
\* the same directory URL.
C9_SamePathSameDirectory ==
    \A u1, u2 \in DOMAIN media :
        media[u1].path = media[u2].path => owner[u1] = owner[u2]

\* C9 as amended: all MediaFile rows that share a root and a path were
\* inserted while processing the same directory URL.
C9_SameRootAndPathSameDirectory ==
    \A u1, u2 \in DOMAIN media :
        (media[u1].root = media[u2].root /\ media[u1].path = media[u2].path)
        => owner[u1] = owner[u2]

C9_Witness ==
    /\ \E u1, u2 \in DOMAIN media :
          /\ u1 # u2
          /\ media[u1].root = media[u2].root
          /\ media[u1].path = media[u2].path
    /\ \E u1, u2 \in DOMAIN media :
          /\ media[u1].root # media[u2].root
          /\ media[u1].path = media[u2].path
          /\ owner[u1] # owner[u2]

\* The parser parse_directory_page selects for a page
Variant(page) ==
    IF page.fallback THEN "h5ai"
    ELSE IF page.example THEN "datatable"
    ELSE "generic"

\* What the selected parser makes of row i of the page
RowEntry(page, i) ==
    IF Variant(page) = "h5ai" THEN h5ai_row(page.rows[i], U_a)
    ELSE IF Variant(page) = "datatable" THEN datatable_row(page.rows[i], U_a)
    ELSE generic_row(page.rows[i], U_a)

\* The rows of the page that its parser accepts as entries
AcceptedRows(page) ==
    IF ~page.table THEN {}
    ELSE {i \in 1..Len(page.rows) : RowEntry(page, i).accepted}

AsSubdir(e) == [name |-> e.name, url |-> e.url, modified |-> e.modified]

AsFile(e) ==
    [name |-> e.name, url |-> e.url, modified |-> e.modified, size |-> e.size]

\* The row's size cell (cell 3) is absent or blank
SizeCellEmpty(tr) == tr.ncells < 4 \/ Strip(tr.c3, " ") = <<>>

\* C10: in all three parser variants an accepted row whose href ends in "/"
\* is in subdirs and not in files.
C10_TrailingSlashIsSubdir ==
    ev.kind = "parsed"
    => \A i \in AcceptedRows(html) :
          EndsWith(html.rows[i].href, <<"/">>)
          => /\ AsSubdir(RowEntry(html, i)) \in Range(parsed.subdirs)
             /\ AsFile(RowEntry(html, i)) \notin Range(parsed.files)

\* C10 as amended: in the h5ai and generic variants an accepted row whose
\* href ends in "/" is in subdirs and not in files; in the DataTables
\* variant this holds when the row's size cell is empty or absent, and a
\* row with a size is in files and not in subdirs.
C10_TrailingSlashIsSubdirUnlessSized ==
    ev.kind = "parsed"
    => \A i \in AcceptedRows(html) :
          EndsWith(html.rows[i].href, <<"/">>)
          => IF Variant(html) = "datatable" /\ ~SizeCellEmpty(html.rows[i])
             THEN /\ AsFile(RowEntry(html, i)) \in Range(parsed.files)
                  /\ AsSubdir(RowEntry(html, i)) \notin Range(parsed.subdirs)
             ELSE /\ AsSubdir(RowEntry(html, i)) \in Range(parsed.subdirs)
                  /\ AsFile(RowEntry(html, i)) \notin Range(parsed.files)

C10_Witness ==
    /\ ev.kind = "parsed"
    /\ Variant(html) = "datatable"
    /\ \E i, j \in AcceptedRows(html) :
          /\ EndsWith(html.rows[i].href, <<"/">>)
          /\ EndsWith(html.rows[j].href, <<"/">>)
          /\ SizeCellEmpty(html.rows[i])
          /\ ~SizeCellEmpty(html.rows[j])
          /\ AsSubdir(RowEntry(html, i)) \in Range(parsed.subdirs)
          /\ AsFile(RowEntry(html, j)) \in Range(parsed.files)

\* The three parent-directory markers of a row
AltIsParentDir(tr) ==
    StartsWith(Upper(tr.alt), <<"[", "P", "A", "R", "E", "N", "T", "D", "I", "R", "]">>)

HrefIsParent(tr) == tr.href \in {<<".", ".">>, <<".", ".", "/">>}

LabelIsParent(tr) == Contains(Strip(tr.label, " "), ParentDirectoryLabel)

\* Some entry of the result carries the row's name and address
Listed(tr) ==
    \E e \in Range(parsed.subdirs) \cup Range(parsed.files) :
        /\ e.name = _decode_name(Strip(tr.label, " "))
        /\ e.url = _normalize_url(U_a, tr.href)

\* C11: whatever parser is selected, a row matching any parent-directory
\* marker (alt text starting with [PARENTDIR], href ".." or "../", label
\* containing "Parent Directory") is in neither subdirs nor files.
C11_ParentRowsAreDropped ==
    ev.kind = "parsed"
    => \A i \in 1..Len(html.rows) :
          LET tr == html.rows[i]
          IN  (AltIsParentDir(tr) \/ HrefIsParent(tr) \/ LabelIsParent(tr))
              => ~Listed(tr)

\* The markers each parser tests
TestedMarker(variant, tr) ==
    IF variant = "generic" THEN AltIsParentDir(tr) \/ HrefIsParent(tr)
    ELSE IF variant = "h5ai" THEN tr.href = <<".", ".">> \/ LabelIsParent(tr)
    ELSE HrefIsParent(tr) \/ LabelIsParent(tr)

\* C11 as amended: a row matching a marker that the selected parser tests
\* (generic: alt text or href; h5ai: href ".." or label; DataTables: href or
\* label) is in neither subdirs nor files.
C11_TestedParentRowsAreDropped ==
    ev.kind = "parsed"
    => \A i \in 1..Len(html.rows) :
          TestedMarker(Variant(html), html.rows[i]) => ~Listed(html.rows[i])

\* A page of each variant with a dropped parent row next to a listed row
C11_Witness ==
    /\ ev.kind = "parsed"
    /\ Variant(html) = "datatable"
    /\ Len(html.rows) = 2
    /\ html.rows[1].href = <<".", ".", "/">>
    /\ ~Listed(html.rows[1])
    /\ ~TestedMarker("datatable", html.rows[2])
    /\ Listed(html.rows[2])

\* a <= b under plain string comparison: a is a prefix of b, or at the first
\* position where they differ a holds the smaller code point
LexLE(a, b) ==
    \/ /\ Len(a) <= Len(b)
       /\ \A i \in 1..Len(a) : a[i] = b[i]
    \/ \E i \in 1..Len(a) :
          /\ i <= Len(b)
          /\ \A j \in 1..(i - 1) : a[j] = b[j]
          /\ a[i] # b[i]
          /\ Ord[a[i]] < Ord[b[i]]

\* The non-empty modified strings of the entries of a result
ModifiedStrings(page) ==
    {e.modified : e \in Range(page.subdirs) \cup Range(page.files)} \ {None, <<>>}

\* C12: the freshness token is the greatest non-empty modified string of the
\* accepted rows under plain string comparison, and is absent exactly when
\* no accepted row has one.
C12_TokenIsGreatestModified ==
    ev.kind = "parsed"
    => /\ parsed.dir_modified = None <=> ModifiedStrings(parsed) = {}
       /\ parsed.dir_modified # None
          => /\ parsed.dir_modified \in ModifiedStrings(parsed)
             /\ \A t \in ModifiedStrings(parsed) : LexLE(t, parsed.dir_modified)

\* The token "2" of a page whose accepted rows carry "10" and "2"
C12_Witness ==
    /\ ev.kind = "parsed"
    /\ ModifiedStrings(parsed) = {<<"1", "0">>, <<"2">>}
    /\ parsed.dir_modified = <<"2">>

\* C13: the store is committed after every 20th indexed directory and when
\* the queue has drained, so the directories whose writes are not yet
\* committed are those indexed since the last multiple of 20, fewer than 20,
\* and none once crawl_root has returned.
C13_UncommittedWithinOneChunk ==
    /\ pc = "loop" => /\ pending = processed_dirs % CommitEvery
                      /\ pending < CommitEvery
    /\ pc = "idle" => pending = 0

\* The 21st indexed directory is the only one not committed
C13_Witness ==
    /\ pc = "loop"
    /\ processed_dirs = CommitEvery + 1
    /\ pending = 1

\* The subdirectory links of the listing served at each URL, per version of
\* the site
Links ==
    [v \in {0, 1} |->
        [u \in SiteUrls |->
            {d.url : d \in Range(parse_directory_page(Site(v)[u], u).subdirs)}]]

\* The served directories a crawl of root r under configuration c prunes
BlockedDirs ==
    [r \in Roots |->
        [c \in Configs |->
            {u \in SiteUrls : _is_blocked_dir(_path_from_root(r, u), c)}]]

\* The served, non-blocked directories linked from each served, non-blocked
\* directory
OpenLinks ==
    [v \in {0, 1} |-> [r \in Roots |-> [c \in Configs |->
        [u \in SiteUrls |->
            IF u \in BlockedDirs[r][c] THEN {}
            ELSE (Links[v][u] \cap SiteUrls) \ BlockedDirs[r][c]]]]]

RECURSIVE Closure(_, _, _)
\* S with everything below it in the graph g, in at most n rounds
Closure(g, S, n) ==
    IF n = 0 THEN S
    ELSE Closure(g, S \cup UNION {g[x] : x \in S}, n - 1)

\* The directories that lie on a cycle of such links
CycleDirsOf ==
    [v \in {0, 1} |-> [r \in Roots |-> [c \in Configs |->
        {u \in SiteUrls :
            u \in Closure(OpenLinks[v][r][c], OpenLinks[v][r][c][u],
                          Cardinality(SiteUrls))}]]]

CycleDirs == CycleDirsOf[ver][root_cfg][cfg]

QueuedUrls == {queue[i][1] : i \in 1..Len(queue)}

\* C14: once a crawl has been answered by a directory on a cycle, and as
\* long as no directory on a cycle has failed, the queue holds a directory
\* on a cycle, so it is never empty and crawl_root does not return.
C14_CycleNeverDrains ==
    (/\ pc = "loop"
     /\ log.ok \cap CycleDirs # {}
     /\ log.failed \cap CycleDirs = {})
    => QueuedUrls \cap CycleDirs # {}

\* C14 as amended: the same in a full crawl.
C14_CycleNeverDrainsInFullCrawl ==
    (/\ pc = "loop"
     /\ ~incremental
     /\ log.ok \cap CycleDirs # {}
     /\ log.failed \cap CycleDirs = {})
    => QueuedUrls \cap CycleDirs # {}

\* A full crawl that has spent all its iterations on the two directories of
\* the cycle and still has one of them queued
C14_Witness ==
    /\ pc = "loop"
    /\ ~incremental
    /\ log.steps = MaxSteps
    /\ log.fetched = {U_z, U_y}
    /\ log.failed = {}
    /\ CycleDirs = {U_z, U_y}
    /\ QueuedUrls \cap CycleDirs # {}

\* The media rows stored under (root, path)
RowsAt(root, path) ==
    {u \in DOMAIN media : media[u].root = root /\ media[u].path = path}

\* C15: right after a directory is indexed, the media rows under (crawled
\* root, the directory's root-relative path) are exactly the files of its
\* parsed page that pass the extension filter, each row holding the name,
\* modified and size of such a file; rows of files no longer listed are gone.
C15_BatchReplacesDirectoryFiles ==
    ev.kind = "indexed"
    => LET want == {f \in Range(parsed.files) : KeptBySpec(f.name)}
       IN  /\ ev.path = _path_from_root(root_cfg, ev.url)
           /\ RowsAt(root_cfg, ev.path) = {f.url : f \in want}
           /\ \A u \in RowsAt(root_cfg, ev.path) :
                 \E f \in want :
                    /\ f.url = u
                    /\ media[u].filename = f.name
                    /\ media[u].modified = f.modified
                    /\ media[u].size = f.size

\* An incremental crawl re-indexes http://x/m/a/ after c.mkv was replaced by
\* h.mp4: the row of c.mkv written by the previous crawl is gone
C15_Witness ==
    /\ ev.kind = "indexed"
    /\ ev.url = U_a
    /\ root_cfg = U_a
    /\ incremental
    /\ ver = 1
    /\ prev.root = U_a
    /\ prev.ver = 0
    /\ U_a \in prev.ok
    /\ (U_a \o <<"c", ".", "m", "k", "v">>) \notin DOMAIN media
    /\ (U_a \o <<"h", ".", "m", "p", "4">>) \in RowsAt(U_a, <<"/">>)

\* The served directories a crawl of root r expands when every fetch is
\* answered: r and everything below it through links out of non-blocked
\* directories
CrawledOf ==
    [v \in {0, 1} |-> [r \in Roots |-> [c \in Configs |->
        Closure(OpenLinks[v][r][c], {r} \cap SiteUrls, Cardinality(SiteUrls))]]]

\* The running (or last) crawl is a full crawl of listings without a cycle
FullCrawlOfTree ==
    /\ log.run > 0
    /\ ~log.inc
    /\ CrawledOf[log.ver][log.root][cfg] \cap CycleDirsOf[log.ver][log.root][cfg] = {}

\* The directories joined to the root by a chain of links in which every
\* directory is non-blocked and was answered in this crawl
ReachedOk ==
    LET g == [u \in SiteUrls |-> OpenLinks[log.ver][log.root][cfg][u] \cap log.ok]
        start == IF log.root \in BlockedDirs[log.root][cfg] THEN {}
                 ELSE {log.root} \cap log.ok
    IN  Closure(g, start, Cardinality(SiteUrls))

\* After crawl_root has returned, every such directory has a dirs row
C16_RowsAtReturn ==
    (FullCrawlOfTree /\ pc = "idle")
    => /\ queue = <<>>
       /\ \A d \in ReachedOk : d \in DOMAIN dirs

\* An iteration takes the head of the queue and appends at its tail: nothing
\* when the directory is skipped, every parsed subdirectory, blocked or not,
\* when it is indexed
C16_Iteration ==
    (FullCrawlOfTree /\ pc = "loop" /\ log'.steps = log.steps + 1)
    => /\ ev'.url = queue[1][1]
       /\ queue' = Tail(queue) \o
                   (IF ev'.kind = "indexed"
                    THEN [i \in 1..Len(parsed'.subdirs) |->
                            <<parsed'.subdirs[i].url, ev'.url>>]
                    ELSE <<>>)

\* C16: a full crawl of listings without a cycle returns with an empty
\* queue; at its return the store has a dirs row for every directory joined
\* to the root by a chain of non-blocked, answered directories; the queue is
\* served first-in first-out and every parsed subdirectory is enqueued,
\* blocked or not.
C16_FullCrawlOfTreeReturns ==
    /\ [] C16_RowsAtReturn
    /\ [][C16_Iteration]_vars
    /\ (FullCrawlOfTree /\ pc # "idle") ~> (pc = "idle" /\ queue = <<>>)

\* A full crawl of http://x/m/ has returned after four iterations: root, a/,
\* the blocked Extras/ (enqueued, then pruned) and a/f/
C16_Witness ==
    /\ FullCrawlOfTree
    /\ pc = "idle"
    /\ queue = <<>>
    /\ log.root = U_m
    /\ log.steps = 4
    /\ ReachedOk = {U_m, U_a, U_f}
    /\ U_extras \in BlockedDirs[U_m][cfg]
    /\ {U_m, U_a, U_f} \subseteq DOMAIN dirs

\* Row u of the table is the same before and after the step
SameRow(table, table2, u) == u \in DOMAIN table2 /\ table2[u] = table[u]

\* The step is a loop iteration that indexed a directory
IndexedStep == log'.steps = log.steps + 1 /\ ev'.kind = "indexed"

\* C17: no step of a crawl of root R deletes or changes a dirs or media row
\* whose root is another root.
C17_OtherRootsUntouched ==
    [][pc # "idle"
       => /\ \A u \in DOMAIN dirs :
                dirs[u].root # root_cfg => SameRow(dirs, dirs', u)
          /\ \A u \in DOMAIN media :
                media[u].root # root_cfg => SameRow(media, media', u)]_vars

\* C17 as amended: a step of a crawl of root R leaves every dirs and media
\* row of another root as it is, except the row whose url is that of the
\* directory the step indexes or of a file the step inserts, which becomes
\* a row of R; no delete removes a row of another root.
C17_OtherRootsKeptUnlessSameUrl ==
    [][pc # "idle"
       => /\ \A u \in DOMAIN dirs :
                dirs[u].root # root_cfg
                => \/ SameRow(dirs, dirs', u)
                   \/ /\ IndexedStep
                      /\ u = ev'.url
                      /\ u \in DOMAIN dirs'
                      /\ dirs'[u].root = root_cfg
          /\ \A u \in DOMAIN media :
                media[u].root # root_cfg
                => \/ SameRow(media, media', u)
                   \/ /\ IndexedStep
                      /\ \E f \in Range(parsed'.files) :
                            KeptBySpec(f.name) /\ f.url = u
                      /\ u \in DOMAIN media'
                      /\ media'[u].root = root_cfg]_vars

\* A crawl of http://x/m/a/ after a crawl of http://x/m/ that indexed the
\* same directory: the directory's row now belongs to the second root, the
\* row of http://x/m/ still belongs to the first
C17_Witness ==
    /\ pc = "loop"
    /\ ev.kind = "indexed"
    /\ ev.url = U_a
    /\ root_cfg = U_a
    /\ prev.root = U_m
    /\ U_a \in prev.ok
    /\ U_a \in DOMAIN dirs
    /\ dirs[U_a].root = U_a
    /\ U_m \in DOMAIN dirs
    /\ dirs[U_m].root = U_m
    /\ \E u \in DOMAIN media : media[u].root = U_m

====
